---------------------------- MODULE Spec2Model ----------------------------
(***************************************************************************)
(* HelioRoute: the sun analysis of handleSubmit (App.tsx).                 *)
(*                                                                         *)
(* handleSubmit receives the route samples of interpolateSunAlongRoute,    *)
(* scans them for sunrise / sunset crossings, tallies the side of the sun  *)
(* for every interval and derives the seat recommendation.                 *)
(*                                                                         *)
(* Spec      : the analysis of handleSubmit on drawn samples.              *)
(* SpecRoute : the path splitting of createFlightPath on drawn points.     *)
(* SpecApp   : the whole handler on the App state, with input edits.       *)
(*                                                                         *)
(* Units: angles are whole degrees, instants are whole milliseconds (the   *)
(* resolution of a JavaScript Date).  Sequences are 1-based here, so the   *)
(* source's sunPoints[i] is sunPoints[i + 1].                              *)
(***************************************************************************)
EXTENDS Integers, Sequences, FiniteSets, TLC

VARIABLES
    sunPoints,      \* result of interpolateSunAlongRoute: the route samples
    sunTimes,       \* sunTimes[i]: SunCalc.getTimes(p.time, p.lat, p.lon) of sample i
    pc,             \* "ready": samples drawn, handler not run; "done": handler returned
                    \* favorites: "firstVisit"/"returnVisit" until a handler runs, then "used"
    sunEvents,      \* state set by setSunEvents(events)
    leftCount, rightCount, aheadCount, behindCount,
    sunVisible, sunIntervals, totalIntervals,
    recommendation, \* state set by setRecommendation(seat)
    sunSummary,     \* state set by setSunSummary(summary)
    points,         \* createFlightPath: the interpolated points of the route
    flightPathSegments, flightPath,
    sourceIATA, destIATA, departure, flightTime,    \* the form inputs
    sourceAirport, destAirport,
    error, loading, depTime, arrivalTime, mapTime,
    sky,            \* the ephemeris in force: which pure function SunCalc is
    watched,        \* history: one query, fixed from the start
    watchedRuns,    \* history: submits of the watched query so far, up to 2
    watchedResults, \* history: the results those submits gave
    favorites,      \* the favorites state as of the last render
    pending,        \* state updates queued since the last render
    localStorage,   \* the item 'sunFlightFavorites': {} when absent, else {list}
    effectQueue     \* effects of the last commit still to run, in order

analysisVars == <<sunPoints, sunTimes, sunEvents, leftCount, rightCount, aheadCount,
                  behindCount, sunVisible, sunIntervals, totalIntervals,
                  recommendation, sunSummary>>

routeVars == <<points, flightPathSegments, flightPath>>

inputVars == <<sourceIATA, destIATA, departure, flightTime>>

appVars == <<sourceAirport, destAirport, error, loading, depTime, arrivalTime, mapTime>>

historyVars == <<sky, watched, watchedRuns, watchedResults>>

favVars == <<favorites, pending, localStorage, effectQueue>>

vars == <<pc, analysisVars, routeVars, inputVars, appVars, historyVars, favVars>>

---------------------------------------------------------------------------
(* Bounds and program constants *)

MaxSamples == 3

intervalMin == 10

IntervalMs == intervalMin * 60000

\* a last step shorter than the sampling interval (7 minutes)
PartialMs == 7 * 60000

\* the departure instant, in milliseconds since the epoch
DepartureMs == 24 * 3600000

NeitherSeat == "Neither (Sun not visible during flight)"

---------------------------------------------------------------------------
(* JavaScript arithmetic *)

\* a % n of JavaScript: the result takes the sign of the dividend
JsRem(a, n) == IF a >= 0 THEN a % n ELSE 0 - ((0 - a) % n)

Abs(a) == IF a < 0 THEN 0 - a ELSE a

---------------------------------------------------------------------------
(* sunUtils.getInitialBearing: the forward azimuth of the two-argument     *)
(* arctangent formula, evaluated exactly on coordinates that are multiples *)
(* of 90 degrees, where every sine and cosine is -1, 0 or 1.               *)

SinDeg(d) ==
    LET r == d % 360
    IN  CASE r = 0   -> 0
          [] r = 90  -> 1
          [] r = 180 -> 0
          [] r = 270 -> 0 - 1

CosDeg(d) == SinDeg(d + 90)

\* Math.atan2(y, x) in degrees; atan2(0, 0) is 0
Atan2Deg(y, x) ==
    CASE y = 0 /\ x >= 0 -> 0
      [] y > 0 /\ x = 0  -> 90
      [] y = 0 /\ x < 0  -> 180
      [] y < 0 /\ x = 0  -> 0 - 90
      [] y > 0 /\ x > 0  -> 45
      [] y > 0 /\ x < 0  -> 135
      [] y < 0 /\ x < 0  -> 0 - 135
      [] y < 0 /\ x > 0  -> 0 - 45

\* the sign of the sine of d degrees
SinSignDeg(d) ==
    LET r == d % 360
    IN  IF r = 0 \/ r = 180 THEN 0 ELSE IF r < 180 THEN 1 ELSE 0 - 1

\* between two points of the equator x is 0 and y has the sign of
\* sin(dLon), whatever the longitudes, so the bearing is 0, 90 or 270
getInitialBearing(lat1, lon1, lat2, lon2) ==
    LET dLon == lon2 - lon1
    IN  IF lat1 = 0 /\ lat2 = 0
        THEN JsRem(Atan2Deg(SinSignDeg(dLon), 0) + 360, 360)
        ELSE LET y == SinDeg(dLon) * CosDeg(lat2)
                 x == CosDeg(lat1) * SinDeg(lat2)
                        - SinDeg(lat1) * CosDeg(lat2) * CosDeg(dLon)
             IN  JsRem(Atan2Deg(y, x) + 360, 360)

---------------------------------------------------------------------------
(* The samples handed to handleSubmit *)

\* positions <<lat, lon>>: two points of the equator and the north pole
Positions == { <<0, 0>>, <<0, 90>>, <<90, 0>> }

\* timestamp of sample i of n: evenly spaced, the last step being lastGap
SampleTime(i, n, lastGap) ==
    IF i < n \/ n = 1
    THEN DepartureMs + (i - 1) * IntervalMs
    ELSE DepartureMs + (n - 2) * IntervalMs + lastGap

\* SunCalc.getTimes for a sample taken at instant t: each of sunrise and
\* sunset is absent ({}) or one instant.  The cases put the instant on an
\* end of the preceding interval, inside it, or outside it.
EphemerisCases == 1..4

GetTimes(c, t) ==
    CASE c = 1 -> [sunrise |-> {},               sunset |-> {}]
      [] c = 2 -> [sunrise |-> {t - IntervalMs}, sunset |-> {t}]
      [] c = 3 -> [sunrise |-> {t - 1},          sunset |-> {t - IntervalMs - 1}]
      [] c = 4 -> [sunrise |-> {t + 1},          sunset |-> {t - 1}]

NoTimes == [sunrise |-> {}, sunset |-> {}]

Sample(t, pos, alt, az) ==
    [time |-> t, lat |-> pos[1], lon |-> pos[2], altitude |-> alt, azimuth |-> az]

\* samples that vary the geometry: position, sun azimuth around the
\* quadrant boundaries, sun just below / on the horizon
AngleAltitudes == {0 - 1, 0}
AngleAzimuths == {44, 45, 46}

\* samples that vary the crossing: altitudes and ephemeris times
CrossingAltitudes == {0 - 5, 0 - 4, 0, 3}

\* the samples of n points with the given per-sample choices
AngleSamples(n, pos, alt, az) ==
    [i \in 1..n |-> Sample(SampleTime(i, n, IntervalMs), pos[i], alt[i], az[i])]

CrossingSamples(n, gap, alt) ==
    [i \in 1..n |-> Sample(SampleTime(i, n, gap), <<0, 0>>, alt[i], 45 * i)]

\* samples that vary the tally: a flight due east along the equator, the
\* sun in the middle of a quadrant, below or above the horizon
MaxTallySamples == 4
TallyAltitudes == {0 - 1, 1}
TallyAzimuths == {0, 90, 180, 270}

EastwardLon(i) == (((i - 1) * 90 + 180) % 360) - 180

TallySamples(n, alt, az) ==
    [i \in 1..n |-> Sample(SampleTime(i, n, IntervalMs), <<0, EastwardLon(i)>>, alt[i], az[i])]

---------------------------------------------------------------------------
(* handleSubmit: the relative position of the sun *)

relAngle(azimuth, heading) == JsRem(azimuth - heading + 360, 360)

\* PositionLabel with the lower edge of Right made inclusive
PositionLabel_LowerInclusive(rel) ==
    IF rel >= 45 /\ rel <= 135 THEN "Right"
    ELSE IF rel > 225 /\ rel < 315 THEN "Left"
    ELSE IF rel >= 315 \/ rel < 45 THEN "Ahead"
    ELSE IF rel > 135 /\ rel <= 225 THEN "Behind"
    ELSE ""

\* the if / else-if chain of the event label
PositionLabel(rel) ==
    IF rel > 45 /\ rel <= 135 THEN "Right"
    ELSE IF rel > 225 /\ rel <= 315 THEN "Left"
    ELSE IF rel > 315 \/ rel <= 45 THEN "Ahead"
    ELSE IF rel > 135 /\ rel <= 225 THEN "Behind"
    ELSE ""

\* EventHeading taking the heading of the interval that ends at sample i
EventHeading_Bracket(pts, i) ==
    IF i > 1
    THEN getInitialBearing(pts[i - 1].lat, pts[i - 1].lon, pts[i].lat, pts[i].lon)
    ELSE IF i < Len(pts)
    THEN getInitialBearing(pts[i].lat, pts[i].lon, pts[i + 1].lat, pts[i + 1].lon)
    ELSE 0

\* heading of the event loop at sample i: towards the next sample, or from
\* the previous one at the last sample, or 0 for a single sample
EventHeading(pts, i) ==
    IF i < Len(pts)
    THEN getInitialBearing(pts[i].lat, pts[i].lon, pts[i + 1].lat, pts[i + 1].lon)
    ELSE IF i > 1
    THEN getInitialBearing(pts[i - 1].lat, pts[i - 1].lon, pts[i].lat, pts[i].lon)
    ELSE 0

---------------------------------------------------------------------------
(* handleSubmit: the event detection loop *)

\* SunriseTime with the lower end of the bracket excluded
SunriseTime_OpenLower(prev, p, times) ==
    IF \E t \in times.sunrise : t > prev.time /\ t <= p.time
    THEN CHOOSE t \in times.sunrise : TRUE
    ELSE prev.time + ((0 - prev.altitude) * (p.time - prev.time)) \div (p.altitude - prev.altitude)

\* SunriseTime taking the ephemeris instant whenever there is one
SunriseTime_NoBracket(prev, p, times) ==
    IF times.sunrise # {}
    THEN CHOOSE t \in times.sunrise : TRUE
    ELSE prev.time + ((0 - prev.altitude) * (p.time - prev.time)) \div (p.altitude - prev.altitude)

\* eventTime of a sunrise between prev and p: times.sunrise when it lies in
\* [prev.time, p.time], else the interpolated instant, which new Date()
\* truncates to whole milliseconds
SunriseTime(prev, p, times) ==
    IF \E t \in times.sunrise : t >= prev.time /\ t <= p.time
    THEN CHOOSE t \in times.sunrise : TRUE
    ELSE prev.time + ((0 - prev.altitude) * (p.time - prev.time)) \div (p.altitude - prev.altitude)

\* SunsetTime interpolating from the later sample's altitude
SunsetTime_LaterAltitude(prev, p, times) ==
    IF \E t \in times.sunset : t >= prev.time /\ t <= p.time
    THEN CHOOSE t \in times.sunset : TRUE
    ELSE prev.time + ((0 - p.altitude) * (p.time - prev.time)) \div (prev.altitude - p.altitude)

SunsetTime(prev, p, times) ==
    IF \E t \in times.sunset : t >= prev.time /\ t <= p.time
    THEN CHOOSE t \in times.sunset : TRUE
    ELSE prev.time + (prev.altitude * (p.time - prev.time)) \div (prev.altitude - p.altitude)

SunEvent(type, time, p, position) ==
    [type |-> type, time |-> time, lat |-> p.lat, lon |-> p.lon,
     azimuth |-> p.azimuth, position |-> position]

\* DetectStep giving an event the position and azimuth of the earlier sample
DetectStep_EarlierSample(pts, tms, i, prevAlt, events) ==
    LET p == pts[i]
        position == PositionLabel(relAngle(p.azimuth, EventHeading(pts, i)))
        afterSunrise ==
            IF \E a \in prevAlt : a < 0 /\ p.altitude >= 0
            THEN Append(events, SunEvent("sunrise", SunriseTime(pts[i - 1], p, tms[i]),
                                         pts[i - 1], position))
            ELSE events
    IN  IF \E a \in prevAlt : a >= 0 /\ p.altitude < 0
        THEN Append(afterSunrise, SunEvent("sunset", SunsetTime(pts[i - 1], p, tms[i]),
                                           pts[i - 1], position))
        ELSE afterSunrise

\* DetectStep pushing the sunset with the type of the sunrise
DetectStep_CopiedType(pts, tms, i, prevAlt, events) ==
    LET p == pts[i]
        position == PositionLabel(relAngle(p.azimuth, EventHeading(pts, i)))
        afterSunrise ==
            IF \E a \in prevAlt : a < 0 /\ p.altitude >= 0
            THEN Append(events, SunEvent("sunrise", SunriseTime(pts[i - 1], p, tms[i]), p, position))
            ELSE events
    IN  IF \E a \in prevAlt : a >= 0 /\ p.altitude < 0
        THEN Append(afterSunrise, SunEvent("sunrise", SunsetTime(pts[i - 1], p, tms[i]), p, position))
        ELSE afterSunrise

\* DetectStep taking a sun on the horizon as still down
DetectStep_HorizonDown(pts, tms, i, prevAlt, events) ==
    LET p == pts[i]
        position == PositionLabel(relAngle(p.azimuth, EventHeading(pts, i)))
        afterSunrise ==
            IF \E a \in prevAlt : a <= 0 /\ p.altitude >= 0
            THEN Append(events, SunEvent("sunrise", SunriseTime(pts[i - 1], p, tms[i]), p, position))
            ELSE events
    IN  IF \E a \in prevAlt : a > 0 /\ p.altitude < 0
        THEN Append(afterSunrise, SunEvent("sunset", SunsetTime(pts[i - 1], p, tms[i]), p, position))
        ELSE afterSunrise

\* one iteration of the loop at sample i; prevAlt is {} for null, else {altitude}
DetectStep(pts, tms, i, prevAlt, events) ==
    LET p == pts[i]
        position == PositionLabel(relAngle(p.azimuth, EventHeading(pts, i)))
        afterSunrise ==
            IF \E a \in prevAlt : a < 0 /\ p.altitude >= 0
            THEN Append(events, SunEvent("sunrise", SunriseTime(pts[i - 1], p, tms[i]), p, position))
            ELSE events
    IN  IF \E a \in prevAlt : a >= 0 /\ p.altitude < 0
        THEN Append(afterSunrise, SunEvent("sunset", SunsetTime(pts[i - 1], p, tms[i]), p, position))
        ELSE afterSunrise

RECURSIVE DetectLoop(_, _, _, _, _)
DetectLoop(pts, tms, i, prevAlt, events) ==
    IF i > Len(pts) THEN events
    ELSE DetectLoop(pts, tms, i + 1, {pts[i].altitude}, DetectStep(pts, tms, i, prevAlt, events))

\* detectSunEvents appending to the events of the run before
detectSunEvents_Append(pts, tms) == DetectLoop(pts, tms, 1, {}, sunEvents)

detectSunEvents(pts, tms) == DetectLoop(pts, tms, 1, {}, <<>>)

---------------------------------------------------------------------------
(* handleSubmit: the side tally loop and the recommendation *)

NoTally ==
    [leftCount |-> 0, rightCount |-> 0, aheadCount |-> 0, behindCount |-> 0,
     sunVisible |-> FALSE, sunIntervals |-> 0]

\* TallyStep with the upper edges of the buckets excluded
TallyStep_StrictUpper(p1, p2, c) ==
    LET heading == getInitialBearing(p1.lat, p1.lon, p2.lat, p2.lon)
        rel == relAngle(p1.azimuth, heading)
        v == [c EXCEPT !.sunVisible = TRUE, !.sunIntervals = @ + 1]
    IN  IF p1.altitude < 0 THEN c
        ELSE IF rel > 45 /\ rel < 135 THEN [v EXCEPT !.rightCount = @ + 1]
        ELSE IF rel > 225 /\ rel < 315 THEN [v EXCEPT !.leftCount = @ + 1]
        ELSE IF rel >= 315 \/ rel <= 45 THEN [v EXCEPT !.aheadCount = @ + 1]
        ELSE IF rel >= 135 /\ rel <= 225 THEN [v EXCEPT !.behindCount = @ + 1]
        ELSE v

\* TallyStep hiding a sun that is exactly on the horizon
TallyStep_HideHorizon(p1, p2, c) ==
    LET heading == getInitialBearing(p1.lat, p1.lon, p2.lat, p2.lon)
        rel == relAngle(p1.azimuth, heading)
        v == [c EXCEPT !.sunVisible = TRUE, !.sunIntervals = @ + 1]
    IN  IF p1.altitude <= 0 THEN c
        ELSE IF rel > 45 /\ rel <= 135 THEN [v EXCEPT !.rightCount = @ + 1]
        ELSE IF rel > 225 /\ rel <= 315 THEN [v EXCEPT !.leftCount = @ + 1]
        ELSE IF rel > 315 \/ rel <= 45 THEN [v EXCEPT !.aheadCount = @ + 1]
        ELSE IF rel > 135 /\ rel <= 225 THEN [v EXCEPT !.behindCount = @ + 1]
        ELSE v

\* TallyStep counting the interval before the altitude test
TallyStep_CountFirst(p1, p2, c) ==
    LET heading == getInitialBearing(p1.lat, p1.lon, p2.lat, p2.lon)
        rel == relAngle(p1.azimuth, heading)
        v == [c EXCEPT !.sunVisible = TRUE, !.sunIntervals = @ + 1]
    IN  IF p1.altitude < 0 THEN v
        ELSE IF rel > 45 /\ rel <= 135 THEN [v EXCEPT !.rightCount = @ + 1]
        ELSE IF rel > 225 /\ rel <= 315 THEN [v EXCEPT !.leftCount = @ + 1]
        ELSE IF rel > 315 \/ rel <= 45 THEN [v EXCEPT !.aheadCount = @ + 1]
        ELSE IF rel > 135 /\ rel <= 225 THEN [v EXCEPT !.behindCount = @ + 1]
        ELSE v

\* one iteration of the loop on the interval from p1 to p2
TallyStep(p1, p2, c) ==
    LET heading == getInitialBearing(p1.lat, p1.lon, p2.lat, p2.lon)
        rel == relAngle(p1.azimuth, heading)
        v == [c EXCEPT !.sunVisible = TRUE, !.sunIntervals = @ + 1]
    IN  IF p1.altitude < 0 THEN c
        ELSE IF rel > 45 /\ rel <= 135 THEN [v EXCEPT !.rightCount = @ + 1]
        ELSE IF rel > 225 /\ rel <= 315 THEN [v EXCEPT !.leftCount = @ + 1]
        ELSE IF rel > 315 \/ rel <= 45 THEN [v EXCEPT !.aheadCount = @ + 1]
        ELSE IF rel > 135 /\ rel <= 225 THEN [v EXCEPT !.behindCount = @ + 1]
        ELSE v

RECURSIVE TallyLoop(_, _, _)
TallyLoop(pts, i, c) ==
    IF i > Len(pts) - 1 THEN c
    ELSE TallyLoop(pts, i + 1, TallyStep(pts[i], pts[i + 1], c))

\* classify with counters that outlive the run
classify_Accumulate(pts) ==
    TallyLoop(pts, 1, [leftCount |-> leftCount, rightCount |-> rightCount,
                       aheadCount |-> aheadCount, behindCount |-> behindCount,
                       sunVisible |-> sunVisible, sunIntervals |-> sunIntervals])

classify(pts) == TallyLoop(pts, 1, NoTally)

\* seat resolving a tie to the right
seat_RightOnTie(c) ==
    IF ~c.sunVisible THEN NeitherSeat
    ELSE IF c.leftCount > c.rightCount THEN "Left"
    ELSE IF c.rightCount >= c.leftCount THEN "Right"
    ELSE IF c.leftCount > 0 THEN "Left" ELSE NeitherSeat

\* seat without the left-preferred tie-break
seat_TieNeither(c) ==
    IF ~c.sunVisible THEN NeitherSeat
    ELSE IF c.leftCount > c.rightCount THEN "Left"
    ELSE IF c.rightCount > c.leftCount THEN "Right"
    ELSE NeitherSeat

seat(c) ==
    IF ~c.sunVisible THEN NeitherSeat
    ELSE IF c.leftCount > c.rightCount THEN "Left"
    ELSE IF c.rightCount > c.leftCount THEN "Right"
    ELSE IF c.leftCount > 0 THEN "Left" ELSE NeitherSeat

---------------------------------------------------------------------------
(* handleSubmit: the summary statistics *)

NoSummary ==
    [kind |-> "", percentVisible |-> 0, leftPercent |-> 0, rightPercent |-> 0,
     aheadPercent |-> 0, behindPercent |-> 0]

BelowHorizonSummary == [NoSummary EXCEPT !.kind = "below the horizon"]

\* ((num / den) * 100).toFixed(0) for num >= 0, den > 0: the nearest integer,
\* the larger one on a tie
ToFixed0(num, den) == (200 * num + den) \div (2 * den)

\* the quadrant percentages taken of the total instead of the visible intervals
summary_OfTotal(c, total) ==
    IF ~c.sunVisible THEN BelowHorizonSummary
    ELSE [kind |-> "visible",
          percentVisible |-> ToFixed0(c.sunIntervals, total),
          leftPercent |-> IF c.sunIntervals # 0 THEN ToFixed0(c.leftCount, total) ELSE 0,
          rightPercent |-> IF c.sunIntervals # 0 THEN ToFixed0(c.rightCount, total) ELSE 0,
          aheadPercent |-> IF c.sunIntervals # 0 THEN ToFixed0(c.aheadCount, total) ELSE 0,
          behindPercent |-> IF c.sunIntervals # 0 THEN ToFixed0(c.behindCount, total) ELSE 0]

\* the text of summary, as the numbers it is built from
summary(c, total) ==
    IF ~c.sunVisible THEN BelowHorizonSummary
    ELSE [kind |-> "visible",
          percentVisible |-> ToFixed0(c.sunIntervals, total),
          leftPercent |-> IF c.sunIntervals # 0 THEN ToFixed0(c.leftCount, c.sunIntervals) ELSE 0,
          rightPercent |-> IF c.sunIntervals # 0 THEN ToFixed0(c.rightCount, c.sunIntervals) ELSE 0,
          aheadPercent |-> IF c.sunIntervals # 0 THEN ToFixed0(c.aheadCount, c.sunIntervals) ELSE 0,
          behindPercent |-> IF c.sunIntervals # 0 THEN ToFixed0(c.behindCount, c.sunIntervals) ELSE 0]

---------------------------------------------------------------------------
(* createFlightPath: splitting the points at the date line *)

\* SplitStep comparing the signed longitude difference
SplitStep_Signed(point, st) ==
    IF Len(st.currentSegment) = 0
    THEN [st EXCEPT !.currentSegment = Append(@, point)]
    ELSE LET prevPoint == st.currentSegment[Len(st.currentSegment)]
             lonDiff == point[2] - prevPoint[2]
         IN  IF lonDiff > 180
             THEN [segments |-> IF Len(st.currentSegment) > 0
                                THEN Append(st.segments, st.currentSegment)
                                ELSE st.segments,
                   currentSegment |-> <<point>>]
             ELSE [st EXCEPT !.currentSegment = Append(@, point)]

\* SplitStep splitting at a difference of 180 degrees already
SplitStep_SplitAt180(point, st) ==
    IF Len(st.currentSegment) = 0
    THEN [st EXCEPT !.currentSegment = Append(@, point)]
    ELSE LET prevPoint == st.currentSegment[Len(st.currentSegment)]
             lonDiff == Abs(point[2] - prevPoint[2])
         IN  IF lonDiff >= 180
             THEN [segments |-> IF Len(st.currentSegment) > 0
                                THEN Append(st.segments, st.currentSegment)
                                ELSE st.segments,
                   currentSegment |-> <<point>>]
             ELSE [st EXCEPT !.currentSegment = Append(@, point)]

\* SplitStep opening the new segment empty
SplitStep_DropPoint(point, st) ==
    IF Len(st.currentSegment) = 0
    THEN [st EXCEPT !.currentSegment = Append(@, point)]
    ELSE LET prevPoint == st.currentSegment[Len(st.currentSegment)]
             lonDiff == Abs(point[2] - prevPoint[2])
         IN  IF lonDiff > 180
             THEN [segments |-> IF Len(st.currentSegment) > 0
                                THEN Append(st.segments, st.currentSegment)
                                ELSE st.segments,
                   currentSegment |-> <<>>]
             ELSE [st EXCEPT !.currentSegment = Append(@, point)]

\* one iteration of the splitting loop; a point is <<lat, lon>>
SplitStep(point, st) ==
    IF Len(st.currentSegment) = 0
    THEN [st EXCEPT !.currentSegment = Append(@, point)]
    ELSE LET prevPoint == st.currentSegment[Len(st.currentSegment)]
             lonDiff == Abs(point[2] - prevPoint[2])
         IN  IF lonDiff > 180
             THEN [segments |-> IF Len(st.currentSegment) > 0
                                THEN Append(st.segments, st.currentSegment)
                                ELSE st.segments,
                   currentSegment |-> <<point>>]
             ELSE [st EXCEPT !.currentSegment = Append(@, point)]

RECURSIVE SplitLoop(_, _, _)
SplitLoop(pts, i, st) ==
    IF i > Len(pts) THEN st
    ELSE SplitLoop(pts, i + 1, SplitStep(pts[i], st))

\* the segments returned for the points pts
splitPath(pts) ==
    LET st == SplitLoop(pts, 1, [segments |-> <<>>, currentSegment |-> <<>>])
    IN  IF Len(st.currentSegment) > 0
        THEN Append(st.segments, st.currentSegment)
        ELSE st.segments

\* Array.prototype.flat() on the segments
RECURSIVE flat(_)
flat(segs) == IF segs = <<>> THEN <<>> ELSE Head(segs) \o flat(Tail(segs))

---------------------------------------------------------------------------
(* sunUtils.interpolateGreatCircle and createFlightPath.  The great circle  *)
(* through two points of the equator is the equator, where the point at     *)
(* fraction f of the shorter arc is exact in whole degrees.                 *)

\* a longitude brought into (-180, 180]
NormLon(l) == 180 - ((180 - l) % 360)

\* the signed longitude difference of the shorter arc, in [-180, 180)
ShortestDLon(lon1, lon2) == ((lon2 - lon1 + 540) % 360) - 180

\* the point at fraction fnum / fden of the way; coincident end points
\* give the first point back
interpolateGreatCircle(lat1, lon1, lat2, lon2, fnum, fden) ==
    IF lat1 = lat2 /\ lon1 = lon2
    THEN [lat |-> lat1, lon |-> lon1]
    ELSE [lat |-> 0, lon |-> NormLon(lon1 + (fnum * ShortestDLon(lon1, lon2)) \div fden)]

steps == 20

\* the first loop of createFlightPath starting one step late
PathPoints_StartLate(lat1, lon1, lat2, lon2) ==
    [k \in 1..steps |->
        LET point == interpolateGreatCircle(lat1, lon1, lat2, lon2, k, steps)
        IN  <<point.lat, point.lon>>]

\* the first loop of createFlightPath stopping one step short
PathPoints_StopShort(lat1, lon1, lat2, lon2) ==
    [k \in 1..steps |->
        LET point == interpolateGreatCircle(lat1, lon1, lat2, lon2, k - 1, steps)
        IN  <<point.lat, point.lon>>]

\* the first loop of createFlightPath: the points at i / steps, i = 0..steps
PathPoints(lat1, lon1, lat2, lon2) ==
    [k \in 1..(steps + 1) |->
        LET point == interpolateGreatCircle(lat1, lon1, lat2, lon2, k - 1, steps)
        IN  <<point.lat, point.lon>>]

createFlightPath(lat1, lon1, lat2, lon2) == splitPath(PathPoints(lat1, lon1, lat2, lon2))

---------------------------------------------------------------------------
(* SunCalc as a pure function of the instant and the position.  A sky is    *)
(* one such function; the sun's altitude follows the minute of the hour and *)
(* so does its azimuth, so that flights of a few minutes meet night,       *)
(* day, a sunrise and a sunset.                                             *)

Skies == 1..4

MinuteOfHour(t) == (t % 3600000) \div 60000

SunAltitude(s, t, lat, lon) ==
    CASE s = 1 -> 0 - 1
      [] s = 2 -> IF MinuteOfHour(t) < intervalMin THEN 0 - 5 ELSE 3
      [] s = 3 -> IF MinuteOfHour(t) < intervalMin THEN 3 ELSE 0 - 5
      [] s = 4 -> 1

SunAzimuth(s, t, lat, lon) == IF MinuteOfHour(t) < intervalMin THEN 0 ELSE 180

\* SunCalc.getTimes: sky 3 knows its sunset, five minutes into the hour
SkyTimes(s, t, lat, lon) ==
    [sunrise |-> {},
     sunset |-> IF s = 3 THEN {t - (t % 3600000) + 5 * 60000} ELSE {}]

---------------------------------------------------------------------------
(* sunUtils.interpolateSunAlongRoute: n = ceil(duration / interval)        *)
(* intervals, sample i at fraction min(i * interval / duration, 1).         *)
(* Durations are in minutes.                                                *)

Min(a, b) == IF a <= b THEN a ELSE b

CeilDiv(a, b) == (a + b - 1) \div b

InvalidInput == "InvalidInput"

\* the number of intervals rounded down, which drops a partial last step
SampleCount_Floor(durationMin, intervalMinutes) == durationMin \div intervalMinutes

SampleCount(durationMin, intervalMinutes) == CeilDiv(durationMin, intervalMinutes)

\* what the call does: throws, or returns the samples
Throws(message) == [thrown |-> message, samples |-> <<>>]
Returns(samples) == [thrown |-> "", samples |-> samples]

\* the samples, or InvalidInput for a non-positive duration or interval
interpolateSunAlongRoute(s, lat1, lon1, lat2, lon2, departureUTC, durationMin, intervalMinutes) ==
    IF durationMin <= 0 \/ intervalMinutes <= 0
    THEN Throws(InvalidInput)
    ELSE Returns(
         [k \in 1..(SampleCount(durationMin, intervalMinutes) + 1) |->
            LET fnum == Min((k - 1) * intervalMinutes, durationMin)
                pos == interpolateGreatCircle(lat1, lon1, lat2, lon2, fnum, durationMin)
                t == departureUTC + (fnum * (durationMin * 60000)) \div durationMin
            IN  Sample(t, <<pos.lat, pos.lon>>,
                       SunAltitude(s, t, pos.lat, pos.lon),
                       SunAzimuth(s, t, pos.lat, pos.lon))])

---------------------------------------------------------------------------
(* The state machine *)

Cleared ==
    /\ pc = "ready"
    /\ sunEvents = <<>>
    /\ leftCount = 0 /\ rightCount = 0 /\ aheadCount = 0 /\ behindCount = 0
    /\ sunVisible = FALSE /\ sunIntervals = 0 /\ totalIntervals = 0
    /\ recommendation = ""
    /\ sunSummary = NoSummary

\* no path computed
RouteIdle ==
    /\ points = <<>>
    /\ flightPathSegments = <<>>
    /\ flightPath = <<>>

\* the App state outside the analysis, which the analysis never reads:
\* held blank
AppIdle ==
    /\ sourceIATA = "" /\ destIATA = "" /\ departure = "" /\ flightTime = 0
    /\ sourceAirport = {} /\ destAirport = {}
    /\ error = "" /\ loading = FALSE
    /\ depTime = {} /\ arrivalTime = {} /\ mapTime = 0

HistoryIdle ==
    /\ sky = 0
    /\ watched = <<>>
    /\ watchedRuns = 0
    /\ watchedResults = {}

\* no update queued
NoPending == [favorites |-> {}, inputs |-> {}]

\* no favorites, nothing stored, nothing queued
FavIdle ==
    /\ favorites = <<>>
    /\ pending = NoPending
    /\ localStorage = {}
    /\ effectQueue = <<>>

\* a query whose samples vary in position, azimuth and visibility
InitAngles ==
    /\ \E n \in 1..MaxSamples :
          \E pos \in [1..n -> Positions], alt \in [1..n -> AngleAltitudes],
             az \in [1..n -> AngleAzimuths] :
              /\ sunPoints = AngleSamples(n, pos, alt, az)
              /\ sunTimes = [i \in 1..n |-> NoTimes]
    /\ Cleared
    /\ RouteIdle /\ AppIdle /\ HistoryIdle /\ FavIdle

\* a query whose samples vary in altitude, ephemeris times and last step
InitCrossings ==
    /\ \E n \in 1..MaxSamples, gap \in {IntervalMs, PartialMs} :
          \E alt \in [1..n -> CrossingAltitudes], eph \in [1..n -> EphemerisCases] :
              /\ sunPoints = CrossingSamples(n, gap, alt)
              /\ sunTimes = [i \in 1..n |-> GetTimes(eph[i], sunPoints[i].time)]
    /\ Cleared
    /\ RouteIdle /\ AppIdle /\ HistoryIdle /\ FavIdle

\* a query whose samples vary in the quadrant and visibility of each interval
InitTallies ==
    /\ \E n \in 2..MaxTallySamples :
          \E alt \in [1..n -> TallyAltitudes], az \in [1..n -> TallyAzimuths] :
              /\ sunPoints = TallySamples(n, alt, az)
              /\ sunTimes = [i \in 1..n |-> NoTimes]
    /\ Cleared
    /\ RouteIdle /\ AppIdle /\ HistoryIdle /\ FavIdle

Init == InitAngles \/ InitCrossings \/ InitTallies

\* the analysis of handleSubmit on the samples of this query
handleSubmit ==
    /\ pc = "ready"
    /\ LET c == classify(sunPoints)
       IN  /\ sunEvents' = detectSunEvents(sunPoints, sunTimes)
           /\ leftCount' = c.leftCount
           /\ rightCount' = c.rightCount
           /\ aheadCount' = c.aheadCount
           /\ behindCount' = c.behindCount
           /\ sunVisible' = c.sunVisible
           /\ sunIntervals' = c.sunIntervals
           /\ totalIntervals' = Len(sunPoints) - 1
           /\ recommendation' = seat(c)
           /\ sunSummary' = summary(c, Len(sunPoints) - 1)
    /\ pc' = "done"
    /\ UNCHANGED <<sunPoints, sunTimes, routeVars, inputVars, appVars, historyVars, favVars>>

Next == handleSubmit

Spec == Init /\ [][Next]_vars

---------------------------------------------------------------------------
(* The path splitting on drawn points *)

MaxPoints == 4

\* longitudes 180 degrees apart, more than 180 apart and less
RouteLongitudes == {0 - 179, 0 - 90, 0, 1, 90, 180}

\* the points of a route: point i has latitude i, so that all points differ
InitRoute ==
    /\ \E n \in 0..MaxPoints :
          \E lon \in [1..n -> RouteLongitudes] :
              points = [i \in 1..n |-> <<i, lon[i]>>]
    /\ flightPathSegments = <<>>
    /\ flightPath = <<>>
    /\ sunPoints = <<>> /\ sunTimes = <<>>
    /\ Cleared
    /\ AppIdle /\ HistoryIdle /\ FavIdle

\* the second half of createFlightPath and the two setters that follow it
setFlightPathSegments ==
    /\ pc = "ready"
    /\ flightPathSegments' = splitPath(points)
    /\ flightPath' = flat(splitPath(points))
    /\ pc' = "done"
    /\ UNCHANGED <<points, analysisVars, inputVars, appVars, historyVars, favVars>>

NextRoute == setFlightPathSegments

SpecRoute == InitRoute /\ [][NextRoute]_vars

---------------------------------------------------------------------------
(* The whole handler on the App state.  flightTime is held in minutes      *)
(* (Number(flightTime) * 60), instants in milliseconds.                     *)

\* airports.json: two airports on the equator, the shorter way between them
\* crossing the date line
airports ==
    { [iata |-> "EQA", lat |-> 0, lon |-> 100,     utcOffset |-> 7 * 3600000],
      [iata |-> "EQB", lat |-> 0, lon |-> 0 - 140, utcOffset |-> (0 - 9) * 3600000] }

ToUpperCase(code) ==
    CASE code = "eqa" -> "EQA"
      [] code = "eqb" -> "EQB"
      [] OTHER -> code

\* airports.find(a => a.iata === code.toUpperCase()): no airport or one
find(code) == {a \in airports : a.iata = ToUpperCase(code)}

IATACodes == {"EQA", "EQB", "ZZZ"}
URLCodes == {"eqa", "EQB", "ZZZ"}
Departures == {"2025-06-22T05:00", ""}
FlightMinutes == {0 - 6, 0, 16, 20}
WallClocks == {DepartureMs + 1, DepartureMs + 2 * IntervalMs}
MaxRuns == 2

\* DateTime.fromISO(departure, {zone}): valid for the one well-formed text,
\* whose wall time is DepartureMs in the zone
IsValid(dep) == dep = "2025-06-22T05:00"
FromISO(dep, zone) == DepartureMs - zone.utcOffset

InvalidIATA == "Invalid IATA code. Please select a valid airport from the list."
InvalidDeparture == "Invalid departure time."

\* NoAnalysis with the reset of the recommendation left out
NoAnalysis_KeepRecommendation ==
    [sunPoints |-> <<>>, sunTimes |-> <<>>, sunEvents |-> <<>>, tally |-> NoTally,
     totalIntervals |-> 0, recommendation |-> recommendation, sunSummary |-> NoSummary]

\* what a run of the handler leaves when it ends before the analysis
NoAnalysis ==
    [sunPoints |-> <<>>, sunTimes |-> <<>>, sunEvents |-> <<>>, tally |-> NoTally,
     totalIntervals |-> 0, recommendation |-> "", sunSummary |-> NoSummary]

\* the analysis of the samples pts: events, tally, seat and summary
Analysis(pts) ==
    LET tms == [i \in 1..Len(pts) |-> SkyTimes(sky, pts[i].time, pts[i].lat, pts[i].lon)]
        c == classify(pts)
    IN  [sunPoints |-> pts, sunTimes |-> tms,
         sunEvents |-> detectSunEvents(pts, tms), tally |-> c,
         totalIntervals |-> Len(pts) - 1,
         recommendation |-> seat(c), sunSummary |-> summary(c, Len(pts) - 1)]

\* the setters of the analysis state, from the record a
SetAnalysis(a) ==
    /\ sunPoints' = a.sunPoints
    /\ sunTimes' = a.sunTimes
    /\ sunEvents' = a.sunEvents
    /\ leftCount' = a.tally.leftCount
    /\ rightCount' = a.tally.rightCount
    /\ aheadCount' = a.tally.aheadCount
    /\ behindCount' = a.tally.behindCount
    /\ sunVisible' = a.tally.sunVisible
    /\ sunIntervals' = a.tally.sunIntervals
    /\ totalIntervals' = a.totalIntervals
    /\ recommendation' = a.recommendation
    /\ sunSummary' = a.sunSummary

\* the submits of the watched query, and what each of them produced
Watch ==
    IF <<sourceIATA, destIATA, departure, flightTime>> = watched
    THEN /\ watchedRuns' = Min(watchedRuns + 1, MaxRuns)
         /\ watchedResults' = watchedResults \cup
                {[recommendation |-> recommendation', sunSummary |-> sunSummary',
                  sunEvents |-> sunEvents', error |-> error']}
    ELSE UNCHANGED <<watchedRuns, watchedResults>>

\* the reset of the times and of the path at the head of handleSubmit, when
\* nothing later in the run sets them again
ClearRoute_Omitted ==
    UNCHANGED <<depTime, arrivalTime, points, flightPathSegments, flightPath>>
ClearRoute ==
    /\ depTime' = {} /\ arrivalTime' = {}
    /\ points' = <<>> /\ flightPathSegments' = <<>> /\ flightPath' = <<>>

\* loading when handleSubmit ends: setLoading(true) of the reset is followed
\* by setLoading(false) before the early return and in the finally block
LoadingAtEnd_NoEarlyReset(earlyReturn) == earlyReturn
LoadingAtEnd(earlyReturn) == FALSE

\* handleSubmit, from the reset to the finally block; the submit button is
\* disabled while loading
onSubmit ==
    LET foundSource == find(sourceIATA)
        foundDest == find(destIATA)
    IN  /\ ~loading
        /\ sourceAirport' = foundSource
        /\ destAirport' = foundDest
        /\ loading' = LoadingAtEnd(foundSource = {} \/ foundDest = {})
        /\ IF foundSource = {} \/ foundDest = {}
           THEN /\ error' = InvalidIATA
                /\ ClearRoute
                /\ SetAnalysis(NoAnalysis)
                /\ UNCHANGED mapTime
           ELSE LET src == CHOOSE a \in foundSource : TRUE
                    dst == CHOOSE a \in foundDest : TRUE
                IN  IF ~IsValid(departure)
                    THEN /\ error' = InvalidDeparture
                         /\ ClearRoute
                         /\ SetAnalysis(NoAnalysis)
                         /\ UNCHANGED mapTime
                    ELSE LET depDT == FromISO(departure, src)
                             arrDT == depDT + flightTime * 60000
                             segments == createFlightPath(src.lat, src.lon, dst.lat, dst.lon)
                             call == interpolateSunAlongRoute(sky, src.lat, src.lon,
                                            dst.lat, dst.lon, depDT, flightTime, intervalMin)
                         IN  /\ depTime' = {depDT}
                             /\ arrivalTime' = {arrDT}
                             /\ points' = PathPoints(src.lat, src.lon, dst.lat, dst.lon)
                             /\ flightPathSegments' = segments
                             /\ flightPath' = flat(segments)
                             /\ IF call.thrown # ""
                                THEN /\ error' = call.thrown
                                     /\ SetAnalysis(NoAnalysis)
                                     /\ UNCHANGED mapTime
                                ELSE /\ error' = ""
                                     /\ SetAnalysis(Analysis(call.samples))
                                     /\ mapTime' = depDT
        /\ Watch
        /\ pc' = "done"
        /\ UNCHANGED <<inputVars, sky, watched, favVars>>

\* the edits of the form
setSourceIATA ==
    /\ \E code \in IATACodes \ {sourceIATA} : sourceIATA' = code
    /\ UNCHANGED <<pc, analysisVars, routeVars, destIATA, departure, flightTime,
                   appVars, historyVars, favVars>>

setDestIATA ==
    /\ \E code \in IATACodes \ {destIATA} : destIATA' = code
    /\ UNCHANGED <<pc, analysisVars, routeVars, sourceIATA, departure, flightTime,
                   appVars, historyVars, favVars>>

setDeparture ==
    /\ \E dep \in Departures \ {departure} : departure' = dep
    /\ UNCHANGED <<pc, analysisVars, routeVars, sourceIATA, destIATA, flightTime,
                   appVars, historyVars, favVars>>

setFlightTime ==
    /\ \E m \in FlightMinutes \ {flightTime} : flightTime' = m
    /\ UNCHANGED <<pc, analysisVars, routeVars, sourceIATA, destIATA, departure,
                   appVars, historyVars, favVars>>

\* the time slider, shown once depTime and arrivalTime are set: from
\* minTime in steps of ten minutes up to maxTime
setMapTime ==
    /\ depTime # {} /\ arrivalTime # {}
    /\ LET minTime == CHOOSE t \in depTime : TRUE
           maxTime == CHOOSE t \in arrivalTime : TRUE
       IN  \E k \in 0..(MaxSamples - 1) :
              /\ k = 0 \/ minTime + k * IntervalMs <= maxTime
              /\ mapTime' = minTime + k * IntervalMs
              /\ mapTime' # mapTime
    /\ UNCHANGED <<pc, analysisVars, routeVars, inputVars, sourceAirport, destAirport,
                   error, loading, depTime, arrivalTime, historyVars, favVars>>

\* swapAirports: the two codes change places, the airports found stay
swapAirports ==
    /\ sourceIATA # destIATA
    /\ sourceIATA' = destIATA
    /\ destIATA' = sourceIATA
    /\ UNCHANGED <<pc, analysisVars, routeVars, departure, flightTime,
                   appVars, historyVars, favVars>>

\* loadFavorite(source, dest) from a row of the favorites list
loadFavorite ==
    /\ \E i \in 1..Len(favorites) :
          /\ <<favorites[i].source, favorites[i].dest>> # <<sourceIATA, destIATA>>
          /\ sourceIATA' = favorites[i].source
          /\ destIATA' = favorites[i].dest
    /\ UNCHANGED <<pc, analysisVars, routeVars, departure, flightTime,
                   appVars, historyVars, favVars>>

\* the useState defaults of the two codes and of the departure
DefaultSource == "EQA"
DefaultDest == "EQB"
DefaultDeparture == "2025-06-22T05:00"

\* a URL parameter: absent, or its text
URLParams == URLCodes \cup {""}

\* the list kept under 'sunFlightFavorites' by an earlier visit
SavedFavorites ==
    <<[source |-> "EQB", dest |-> "EQA"], [source |-> "ZZZ", dest |-> "EQA"]>>

\* JSON.stringify of a favorites list and JSON.parse of the text: the text
\* is the row of <<source, dest>> entries, and also for the empty list it
\* is a non-empty string
stringify(favs) == [i \in 1..Len(favs) |-> <<favs[i].source, favs[i].dest>>]
parse(text) == [i \in 1..Len(text) |-> [source |-> text[i][1], dest |-> text[i][2]]]

\* prefillFromURL for one airport: the code is replaced by a present
\* parameter, the airport only when the parameter names one
PrefillCode(param, default) == IF param # "" THEN ToUpperCase(param) ELSE default
PrefillAirport(param, default) ==
    IF param # "" /\ find(param) # {} THEN find(param) ELSE find(default)

\* the App after mount: the defaults overwritten by the URL parameters,
\* the saved favorites loaded, nothing computed
InitApp ==
    /\ \E s \in URLParams, d \in URLParams :
          /\ sourceIATA = PrefillCode(s, DefaultSource)
          /\ destIATA = PrefillCode(d, DefaultDest)
          /\ sourceAirport = PrefillAirport(s, DefaultSource)
          /\ destAirport = PrefillAirport(d, DefaultDest)
    /\ departure = DefaultDeparture
    /\ flightTime \in FlightMinutes
    /\ mapTime \in WallClocks
    /\ error = "" /\ loading = FALSE
    /\ depTime = {} /\ arrivalTime = {}
    /\ sunPoints = <<>> /\ sunTimes = <<>>
    /\ Cleared
    /\ RouteIdle
    /\ sky \in Skies
    /\ watched \in {<<"EQA", "EQB", "2025-06-22T05:00", 16>>,
                     <<"EQA", "EQA", "2025-06-22T05:00", 20>>,
                     <<"EQB", "EQA", "2025-06-22T05:00", 0>>}
    /\ watchedRuns = 0
    /\ watchedResults = {}
    /\ favorites = SavedFavorites
    /\ pending = NoPending
    /\ localStorage = {stringify(SavedFavorites)}
    /\ effectQueue = <<>>

NextApp ==
    \/ onSubmit
    \/ setSourceIATA
    \/ setDestIATA
    \/ setDeparture
    \/ setFlightTime
    \/ setMapTime
    \/ swapAirports
    \/ loadFavorite

SpecApp == InitApp /\ [][NextApp]_vars

----------------------------------------------------------------------------
(* The favorites. A handler reads favorites, sourceIATA and destIATA of the *)
(* render it was created in and queues its updates; the next render applies *)
(* the queued updates, the last one of each kind winning, and the effects   *)
(* of that render run before the next handler. Effects read the favorites   *)
(* of their render too.                                                     *)

MaxFavorites == 4

\* favorites.some(fav => fav.source === source && fav.dest === dest)
isFavorite_Never(favs, source, dest) == FALSE
isFavorite(favs, source, dest) ==
    \E i \in 1..Len(favs) : favs[i].source = source /\ favs[i].dest = dest

isCurrentFavorite == isFavorite(favorites, sourceIATA, destIATA)

\* favorites.filter(fav => fav.source !== source || fav.dest !== dest)
IsOther(fav, source, dest) == fav.source # source \/ fav.dest # dest
filter(favs, source, dest) ==
    LET Keep(fav) == IsOther(fav, source, dest) IN SelectSeq(favs, Keep)

\* setFavorites(list), and the two code setters called together
setFavorites(list) == pending' = [pending EXCEPT !.favorites = {list}]
setCodes(source, dest) == pending' = [pending EXCEPT !.inputs = {<<source, dest>>}]

\* handlers run once the effects of the last render have run
HandlerReady == effectQueue = <<>>

toggleFavorite ==
    /\ HandlerReady
    /\ IF isCurrentFavorite
       THEN setFavorites(filter(favorites, sourceIATA, destIATA))
       ELSE LET newFavorite == [source |-> sourceIATA, dest |-> destIATA]
            IN  IF ~isFavorite(favorites, newFavorite.source, newFavorite.dest)
                THEN /\ Len(favorites) < MaxFavorites
                     /\ setFavorites(Append(favorites, newFavorite))
                ELSE UNCHANGED pending
    /\ pc' = "used"
    /\ UNCHANGED <<analysisVars, routeVars, inputVars, appVars, historyVars,
                   favorites, localStorage, effectQueue>>

\* removeFavorite(fav.source, fav.dest) from a row of the list
removeFavorite ==
    /\ HandlerReady
    /\ \E i \in 1..Len(favorites) :
          setFavorites(filter(favorites, favorites[i].source, favorites[i].dest))
    /\ pc' = "used"
    /\ UNCHANGED <<analysisVars, routeVars, inputVars, appVars, historyVars,
                   favorites, localStorage, effectQueue>>

\* loadFavorite(fav.source, fav.dest) from a row of the list, its two
\* updates queued
queueLoadFavorite ==
    /\ HandlerReady
    /\ \E i \in 1..Len(favorites) : setCodes(favorites[i].source, favorites[i].dest)
    /\ pc' = "used"
    /\ UNCHANGED <<analysisVars, routeVars, inputVars, appVars, historyVars,
                   favorites, localStorage, effectQueue>>

\* swapAirports, its two updates queued
queueSwapAirports ==
    /\ HandlerReady
    /\ LET temp == sourceIATA IN setCodes(destIATA, temp)
    /\ pc' = "used"
    /\ UNCHANGED <<analysisVars, routeVars, inputVars, appVars, historyVars,
                   favorites, localStorage, effectQueue>>

\* a render with updates queued: they are applied, and the save effect is
\* queued when favorites was set, its dependency being a new array
render ==
    /\ effectQueue = <<>>
    /\ pending # NoPending
    /\ favorites' = IF pending.favorites = {} THEN favorites
                    ELSE CHOOSE list \in pending.favorites : TRUE
    /\ \E codes \in (IF pending.inputs = {} THEN {<<sourceIATA, destIATA>>}
                     ELSE pending.inputs) :
          /\ sourceIATA' = codes[1]
          /\ destIATA' = codes[2]
    /\ effectQueue' = IF pending.favorites = {} THEN <<>> ELSE <<"save">>
    /\ pending' = NoPending
    /\ UNCHANGED <<pc, analysisVars, routeVars, departure, flightTime, appVars,
                   historyVars, localStorage>>

\* the load effect: a stored text, which is never the empty string, is
\* parsed into favorites; the save effect: the favorites of the render
\* are stored
loadEffect ==
    /\ effectQueue # <<>> /\ Head(effectQueue) = "load"
    /\ IF localStorage # {}
       THEN setFavorites(parse(CHOOSE text \in localStorage : TRUE))
       ELSE UNCHANGED pending
    /\ effectQueue' = Tail(effectQueue)
    /\ UNCHANGED <<pc, analysisVars, routeVars, inputVars, appVars, historyVars,
                   favorites, localStorage>>

saveEffect ==
    /\ effectQueue # <<>> /\ Head(effectQueue) = "save"
    /\ localStorage' = {stringify(favorites)}
    /\ effectQueue' = Tail(effectQueue)
    /\ UNCHANGED <<pc, analysisVars, routeVars, inputVars, appVars, historyVars,
                   favorites, pending>>

\* the effects of the first render, in the order of their declaration, run
\* once, or twice over when the App is mounted in StrictMode
MountEffects == {<<"load", "save">>, <<"load", "save", "load", "save">>}

\* the first render: the default codes, no favorites, the item of an
\* earlier visit or none
InitFav ==
    /\ pc \in {"firstVisit", "returnVisit"}
    /\ localStorage = IF pc = "returnVisit" THEN {stringify(SavedFavorites)} ELSE {}
    /\ favorites = <<>>
    /\ pending = NoPending
    /\ effectQueue \in MountEffects
    /\ sourceIATA = DefaultSource /\ destIATA = DefaultDest
    /\ departure = DefaultDeparture /\ flightTime = 0
    /\ sourceAirport = find(DefaultSource) /\ destAirport = find(DefaultDest)
    /\ error = "" /\ loading = FALSE
    /\ depTime = {} /\ arrivalTime = {} /\ mapTime = 0
    /\ sunPoints = <<>> /\ sunTimes = <<>>
    /\ sunEvents = <<>>
    /\ leftCount = 0 /\ rightCount = 0 /\ aheadCount = 0 /\ behindCount = 0
    /\ sunVisible = FALSE /\ sunIntervals = 0 /\ totalIntervals = 0
    /\ recommendation = "" /\ sunSummary = NoSummary
    /\ RouteIdle
    /\ HistoryIdle

NextFav ==
    \/ toggleFavorite
    \/ removeFavorite
    \/ queueLoadFavorite
    \/ queueSwapAirports
    \/ render
    \/ loadEffect
    \/ saveEffect

SpecFav == InitFav /\ [][NextFav]_vars

---------------------------------------------------------------------------
(* Vocabulary of the properties, read off the samples of the query *)

Intervals == 1..(Len(sunPoints) - 1)

Done == pc = "done"

\* heading of interval i: the initial bearing from position[i] to position[i+1]
Heading(i) ==
    getInitialBearing(sunPoints[i].lat, sunPoints[i].lon,
                      sunPoints[i + 1].lat, sunPoints[i + 1].lon)

RelativeAngle(i) == (sunPoints[i].azimuth - Heading(i) + 360) % 360

Visible(i) == sunPoints[i].altitude >= 0

Coincident(i) ==
    /\ sunPoints[i].lat = sunPoints[i + 1].lat
    /\ sunPoints[i].lon = sunPoints[i + 1].lon

\* number of visible intervals whose relative angle lies in the set A
VisibleIn(A) == Cardinality({i \in Intervals : Visible(i) /\ RelativeAngle(i) \in A})

\* the kind of crossing of the pair (i, i+1)
CrossKind(i) ==
    IF sunPoints[i].altitude < 0 /\ sunPoints[i + 1].altitude >= 0 THEN "sunrise"
    ELSE IF sunPoints[i].altitude >= 0 /\ sunPoints[i + 1].altitude < 0 THEN "sunset"
    ELSE "none"

Crossings == {i \in Intervals : CrossKind(i) # "none"}

\* the pair of the k-th crossing, in sample order
NthCrossing(k) == CHOOSE i \in Crossings : Cardinality({j \in Crossings : j <= i}) = k

\* the ephemeris instants of the k-th crossing's kind at its later sample
Ephemeris(k) ==
    LET i == NthCrossing(k)
    IN  IF CrossKind(i) = "sunrise" THEN sunTimes[i + 1].sunrise ELSE sunTimes[i + 1].sunset

InBracket(t, i) == sunPoints[i].time <= t /\ t <= sunPoints[i + 1].time

EphemerisInBracket(k) == \E t \in Ephemeris(k) : InBracket(t, NthCrossing(k))

\* numerator and denominator of the interpolated offset of crossing pair i
InterpNum(i) == Abs(sunPoints[i].altitude) * (sunPoints[i + 1].time - sunPoints[i].time)
InterpDen(i) == Abs(sunPoints[i + 1].altitude - sunPoints[i].altitude)

\* relative angle of the label of the k-th event, taken at its later sample
EventRelativeAngle(k) ==
    LET j == NthCrossing(k) + 1
    IN  (sunPoints[j].azimuth - EventHeading(sunPoints, j) + 360) % 360

\* every visible interval sits on the 45 or the 315 degree boundary
OnlyBoundaryIntervals == \A i \in Intervals : Visible(i) => RelativeAngle(i) \in {45, 315}

---------------------------------------------------------------------------
(* Properties *)

\* C1: a visible interval is counted Right iff 45 < relativeAngle <= 135,
\* Behind iff 135 < relativeAngle <= 225, Left iff 225 < relativeAngle <= 315
\* and Ahead iff relativeAngle > 315 or relativeAngle <= 45.
C1_QuadrantRule ==
    Done =>
        /\ rightCount = VisibleIn(46..135)
        /\ behindCount = VisibleIn(136..225)
        /\ leftCount = VisibleIn(226..315)
        /\ aheadCount = VisibleIn((316..359) \cup (0..45))

C1_Witness ==
    /\ Done
    /\ \E i, j \in Intervals :
          /\ Visible(i) /\ RelativeAngle(i) = 135
          /\ Visible(j) /\ RelativeAngle(j) = 316

\* C2 as stated: a relativeAngle of exactly 45 is Right and one of exactly
\* 315 is Ahead, in the side tally and in the event label.
C2_BoundaryAsClaimed ==
    Done =>
        /\ OnlyBoundaryIntervals =>
              /\ rightCount = VisibleIn({45})
              /\ aheadCount = VisibleIn({315})
        /\ \A k \in 1..Len(sunEvents) :
              /\ EventRelativeAngle(k) = 45 => sunEvents[k].position = "Right"
              /\ EventRelativeAngle(k) = 315 => sunEvents[k].position = "Ahead"

\* C2 amended: a relativeAngle of exactly 45 is Ahead (not Right) and one of
\* exactly 315 is Left (not Ahead), in the side tally and in the event label.
C2_BoundaryUpperInclusive ==
    Done =>
        /\ OnlyBoundaryIntervals =>
              /\ aheadCount = VisibleIn({45})
              /\ leftCount = VisibleIn({315})
              /\ rightCount = 0
        /\ \A k \in 1..Len(sunEvents) :
              /\ EventRelativeAngle(k) = 45 => sunEvents[k].position = "Ahead"
              /\ EventRelativeAngle(k) = 315 => sunEvents[k].position = "Left"

C2_Witness ==
    /\ Done
    /\ OnlyBoundaryIntervals
    /\ VisibleIn({45}) >= 1
    /\ VisibleIn({315}) >= 1
    /\ \E k \in 1..Len(sunEvents) : EventRelativeAngle(k) \in {45, 315}

\* C3: the recommendation is the "Neither, sun not visible" one when no
\* interval is visible; otherwise Left when leftCount > rightCount and Right
\* when rightCount > leftCount; Right only when rightCount > leftCount.
C3_Recommendation ==
    Done =>
        /\ sunIntervals = 0 => recommendation = NeitherSeat
        /\ sunIntervals > 0 /\ leftCount > rightCount => recommendation = "Left"
        /\ sunIntervals > 0 /\ rightCount > leftCount => recommendation = "Right"
        /\ recommendation = "Right" => rightCount > leftCount

C3_Witness ==
    /\ Done
    /\ sunIntervals = 2
    /\ rightCount = 1
    /\ leftCount = 0
    /\ recommendation = "Right"

\* C4: with a visible interval and leftCount = rightCount the recommendation
\* is Left if leftCount > 0 and Neither if leftCount = 0, never Right.
C4_TieBreak ==
    Done /\ sunIntervals > 0 /\ leftCount = rightCount =>
        /\ leftCount > 0 => recommendation = "Left"
        /\ leftCount = 0 => recommendation = NeitherSeat
        /\ recommendation # "Right"

C4_Witness ==
    /\ Done
    /\ leftCount = 1
    /\ rightCount = 1
    /\ recommendation = "Left"

\* C5: for k >= 1 samples totalIntervals = k - 1 and visibleIntervals is the
\* number of i in 0..k-2 with altitude[i] >= 0; a hidden interval adds to no
\* quadrant, and the altitude of the last sample does not matter.
C5_IntervalCounts ==
    Done =>
        /\ totalIntervals = Len(sunPoints) - 1
        /\ sunIntervals = Cardinality({i \in Intervals : sunPoints[i].altitude >= 0})
        /\ sunVisible = (sunIntervals > 0)
        /\ leftCount + rightCount + aheadCount + behindCount
             <= Cardinality({i \in Intervals : sunPoints[i].altitude >= 0})

C5_Witness ==
    /\ Done
    /\ Len(sunPoints) = 3
    /\ sunPoints[1].altitude < 0
    /\ sunPoints[2].altitude = 0
    /\ sunPoints[3].altitude >= 0
    /\ sunIntervals = 1
    /\ totalIntervals = 2

\* C6: after classification, also of samples whose consecutive positions
\* coincide, the four quadrant counts add up to visibleIntervals and
\* visibleIntervals <= totalIntervals.
C6_CountsAddUp ==
    Done =>
        /\ leftCount + rightCount + aheadCount + behindCount = sunIntervals
        /\ sunIntervals <= totalIntervals

C6_Witness ==
    /\ Done
    /\ \E i \in Intervals : Visible(i) /\ Coincident(i)
    /\ \E i \in Intervals : ~Visible(i)
    /\ sunIntervals >= 1

\* C7: the pair (i, i+1) emits a sunrise iff altitude[i] < 0 and
\* altitude[i+1] >= 0, a sunset iff altitude[i] >= 0 and altitude[i+1] < 0,
\* nothing otherwise, at most one event per pair and none for a lone sample.
C7_EventPerCrossing ==
    Done =>
        /\ Len(sunEvents) = Cardinality(Crossings)
        /\ \A k \in 1..Len(sunEvents) : sunEvents[k].type = CrossKind(NthCrossing(k))

C7_Witness ==
    /\ Done
    /\ Len(sunPoints) = 3
    /\ sunPoints[1].altitude = 0
    /\ sunPoints[2].altitude = 0
    /\ Len(sunEvents) = 1
    /\ sunEvents[1].type = "sunset"

\* C8: when the ephemeris sunrise (sunset) instant at the later sample lies
\* in the closed interval [time[i], time[i+1]], the event time is that instant.
C8_EphemerisTime ==
    Done =>
        \A k \in 1..Len(sunEvents) :
            \A t \in Ephemeris(k) :
                InBracket(t, NthCrossing(k)) => sunEvents[k].time = t

C8_Witness ==
    /\ Done
    /\ \E k \in 1..Len(sunEvents) :
          LET i == NthCrossing(k)
          IN  /\ sunPoints[i].time \in Ephemeris(k)
              /\ sunEvents[k].time = sunPoints[i].time
              /\ InterpNum(i) > 0

\* C9 as stated: without an ephemeris instant in the bracket the event time
\* is exactly time[i] + |altitude[i]| / |altitude[i+1] - altitude[i]| *
\* (time[i+1] - time[i]).
C9_ExactInterpolation ==
    Done =>
        \A k \in 1..Len(sunEvents) :
            LET i == NthCrossing(k)
            IN  ~EphemerisInBracket(k) =>
                    (sunEvents[k].time - sunPoints[i].time) * InterpDen(i) = InterpNum(i)

\* C9 amended: without an ephemeris instant in the bracket an event is still
\* emitted, and its time is that interpolated instant cut to a whole
\* millisecond; altitudes -5 and +3 over 10 minutes give time[i] + 375000 ms.
C9_TruncatedInterpolation ==
    Done =>
        /\ Len(sunEvents) = Cardinality(Crossings)
        /\ \A k \in 1..Len(sunEvents) :
              LET i == NthCrossing(k)
              IN  ~EphemerisInBracket(k) =>
                    /\ sunEvents[k].time = sunPoints[i].time + InterpNum(i) \div InterpDen(i)
                    /\ ( /\ sunPoints[i].altitude = 0 - 5
                         /\ sunPoints[i + 1].altitude = 3
                         /\ sunPoints[i + 1].time - sunPoints[i].time = 600000 )
                       => sunEvents[k].time = sunPoints[i].time + 375000

C9_Witness ==
    /\ Done
    /\ \E k \in 1..Len(sunEvents) :
          LET i == NthCrossing(k)
          IN  /\ ~EphemerisInBracket(k)
              /\ Ephemeris(k) # {}
              /\ InterpNum(i) % InterpDen(i) # 0
    /\ \E k \in 1..Len(sunEvents) :
          LET i == NthCrossing(k)
          IN  /\ ~EphemerisInBracket(k)
              /\ sunPoints[i].altitude = 0 - 5
              /\ sunPoints[i + 1].altitude = 3
              /\ sunEvents[k].time = sunPoints[i].time + 375000

\* C10: with strictly increasing timestamps every event's time lies in the
\* interval of its bracketing samples and the event list is in
\* non-decreasing time order.
C10_OrderedEvents ==
    Done =>
        /\ \A k \in 1..Len(sunEvents) : InBracket(sunEvents[k].time, NthCrossing(k))
        /\ \A k \in 1..(Len(sunEvents) - 1) : sunEvents[k].time <= sunEvents[k + 1].time

C10_Witness ==
    /\ Done
    /\ \A i \in Intervals : sunPoints[i].time < sunPoints[i + 1].time
    /\ Len(sunEvents) = 2
    /\ \E k \in 1..2 : \E t \in Ephemeris(k) : ~InBracket(t, NthCrossing(k))

\* the longitude steps of the drawn points that are wider than 180 degrees
WideSteps == {i \in 1..(Len(points) - 1) : Abs(points[i + 1][2] - points[i][2]) > 180}

RECURSIVE SumLen(_)
SumLen(segs) == IF segs = <<>> THEN 0 ELSE Len(Head(segs)) + SumLen(Tail(segs))

\* C11: no segment of the split path holds two consecutive points whose
\* longitudes differ by more than 180 degrees.
C11_NoWideStepInSegment ==
    Done =>
        \A s \in 1..Len(flightPathSegments) :
            \A j \in 1..(Len(flightPathSegments[s]) - 1) :
                Abs(flightPathSegments[s][j + 1][2] - flightPathSegments[s][j][2]) <= 180

C11_Witness ==
    /\ Done
    /\ WideSteps # {}
    /\ \E i \in 1..(Len(points) - 1) : points[i][2] - points[i + 1][2] > 180
    /\ \E i \in 1..(Len(points) - 1) : Abs(points[i + 1][2] - points[i][2]) = 180
    /\ Len(flightPathSegments) >= 2

\* C12: the segments, concatenated in order, are the input points, each once
\* and in order, and for a non-empty input no segment is empty.
C12_SegmentsPartitionPath ==
    Done =>
        /\ flightPath = points
        /\ flat(flightPathSegments) = points
        /\ SumLen(flightPathSegments) = Len(points)
        /\ points # <<>> =>
              /\ Len(flightPathSegments) >= 1
              /\ \A s \in 1..Len(flightPathSegments) : Len(flightPathSegments[s]) > 0

C12_Witness ==
    /\ Done
    /\ Len(points) = MaxPoints
    /\ Len(flightPathSegments) = Cardinality(WideSteps) + 1
    /\ WideSteps = {1, Len(points) - 1}

\* p is 100 * num / den rounded to the nearest integer
RoundedPercent(p, num, den) ==
    /\ den > 0
    /\ 2 * Abs(100 * num - p * den) <= den
    /\ p \in 0..100

\* C15: when the summary reports percentages, the visible percentage is the
\* rounded share of visible intervals in all intervals, each quadrant
\* percentage is the rounded share of its count in the visible intervals,
\* no denominator is zero and every percentage lies in 0..100.
C15_Percentages ==
    (Done /\ sunSummary.kind = "visible") =>
        /\ RoundedPercent(sunSummary.percentVisible, sunIntervals, totalIntervals)
        /\ RoundedPercent(sunSummary.leftPercent, leftCount, sunIntervals)
        /\ RoundedPercent(sunSummary.rightPercent, rightCount, sunIntervals)
        /\ RoundedPercent(sunSummary.aheadPercent, aheadCount, sunIntervals)
        /\ RoundedPercent(sunSummary.behindPercent, behindCount, sunIntervals)

C15_Witness ==
    /\ Done
    /\ sunSummary.kind = "visible"
    /\ totalIntervals = 3 /\ sunIntervals = 2 /\ leftCount = 1 /\ behindCount = 1
    /\ sunSummary.percentVisible = 67
    /\ sunSummary.leftPercent = 50 /\ sunSummary.behindPercent = 50
    /\ sunSummary.rightPercent = 0

\* the label the quadrant rule gives the k-th event under the heading h
LabelUnder(k, h) == PositionLabel((sunEvents[k].azimuth - h + 360) % 360)

\* the heading at the later sample of the pair (i, i+1): towards the sample
\* after it, or along the pair itself when the later sample is the last one
HeadingAtLater(i) == IF i + 1 < Len(sunPoints) THEN Heading(i + 1) ELSE Heading(i)

\* C20 as claimed: the label of an event detected between samples i and i+1
\* is the quadrant of the event azimuth relative to the initial bearing from
\* position[i] to position[i+1].
C20_BracketHeading ==
    Done => \A k \in 1..Len(sunEvents) :
                sunEvents[k].position = LabelUnder(k, Heading(NthCrossing(k)))

\* C20 amended: the label of an event detected between samples i and i+1 is
\* the quadrant of the event azimuth relative to the heading at the later
\* sample: the initial bearing from position[i+1] to position[i+2], or from
\* position[i] to position[i+1] when sample i+1 is the last one.
C20_HeadingAtLaterSample ==
    Done => \A k \in 1..Len(sunEvents) :
                sunEvents[k].position = LabelUnder(k, HeadingAtLater(NthCrossing(k)))

C20_Witness ==
    /\ Done
    /\ Len(sunEvents) = 2
    /\ NthCrossing(1) + 1 < Len(sunPoints)
    /\ NthCrossing(2) + 1 = Len(sunPoints)
    /\ LabelUnder(1, Heading(NthCrossing(1))) # LabelUnder(1, HeadingAtLater(NthCrossing(1)))
    /\ sunEvents[1].position = "Ahead"

\* the last submit produced samples
Sampled == sunPoints # <<>>

LastSample == sunPoints[Len(sunPoints)]

\* C13: the last sample is taken at departure + duration exactly, at the
\* destination (fraction 1), also when the duration is no multiple of the
\* sampling interval.
C13_LastSampleAtArrival ==
    Sampled =>
        /\ arrivalTime = {LastSample.time}
        /\ depTime = {sunPoints[1].time}
        /\ \A a \in destAirport : LastSample.lat = a.lat /\ LastSample.lon = a.lon
        /\ \A i \in Intervals : sunPoints[i].time < sunPoints[i + 1].time

C13_Witness ==
    /\ Sampled
    /\ Len(sunPoints) = 3
    /\ sunPoints[2].time - sunPoints[1].time = IntervalMs
    /\ LastSample.time - sunPoints[2].time = 6 * 60000
    /\ arrivalTime = {LastSample.time}

\* the form holds two known airports and a well-formed departure
WellFormedQuery == find(sourceIATA) # {} /\ find(destIATA) # {} /\ IsValid(departure)

\* C14: a submit with a non-positive flight time ends with an error and
\* with no samples, no events, no recommendation and no summary; the error
\* is the sampler's InvalidInput when the rest of the query is well formed.
C14_NonPositiveFlightTime ==
    [][(onSubmit /\ flightTime <= 0) =>
          /\ error' # ""
          /\ WellFormedQuery => error' = InvalidInput
          /\ sunPoints' = <<>>
          /\ sunEvents' = <<>>
          /\ recommendation' = ""
          /\ sunSummary' = NoSummary
          /\ loading' = FALSE]_vars

C14_Witness ==
    /\ Done
    /\ flightTime <= 0
    /\ WellFormedQuery
    /\ error = InvalidInput
    /\ sunPoints = <<>> /\ sunEvents = <<>> /\ recommendation = ""
    /\ depTime # {} /\ flightPath # <<>>

\* C16: a run of the classifier on the samples the run before it had leaves
\* the left, right, ahead, behind, visible and total counts and the
\* recommendation as they were.
C16_ClassifyIdempotent ==
    [][(onSubmit /\ Sampled /\ sunPoints' = sunPoints) =>
          /\ leftCount' = leftCount /\ rightCount' = rightCount
          /\ aheadCount' = aheadCount /\ behindCount' = behindCount
          /\ sunVisible' = sunVisible /\ sunIntervals' = sunIntervals
          /\ totalIntervals' = totalIntervals
          /\ recommendation' = recommendation]_vars

C16_Witness ==
    /\ watchedRuns >= 2
    /\ <<sourceIATA, destIATA, departure, flightTime>> = watched
    /\ Sampled
    /\ totalIntervals = 2 /\ sunIntervals = 2
    /\ leftCount = 1 /\ rightCount = 1
    /\ recommendation = "Left"

\* C17: all submits of one query give the same recommendation, summary,
\* events and error, whatever was submitted before them and whatever
\* mapTime was.
C17_ResultsDependOnInputsOnly == Cardinality(watchedResults) <= 1

C17_Witness ==
    /\ watchedRuns >= 2
    /\ \E r \in watchedResults :
          /\ r.recommendation = "Left"
          /\ Len(r.sunEvents) = 1
          /\ r.sunSummary.percentVisible = 50
    /\ <<sourceIATA, destIATA, departure, flightTime>> # watched
    /\ recommendation # "Left"
    /\ mapTime \notin depTime

\* the last submit computed a route
Routed == depTime # {} /\ sourceAirport # {} /\ destAirport # {}

\* the last submit computed a route from an airport to itself
CoincidentRoute == Routed /\ sourceAirport = destAirport

Origin == LET a == CHOOSE a \in sourceAirport : TRUE IN <<a.lat, a.lon>>
Destination == LET a == CHOOSE a \in destAirport : TRUE IN <<a.lat, a.lon>>

\* the submit was given a positive flight time
PositiveDuration == \A d \in depTime : \A a \in arrivalTime : a > d

\* C18 as claimed: with origin and destination the same airport the route
\* computation completes without error and the route is a single point.
C18_SinglePointRoute ==
    CoincidentRoute =>
        /\ PositiveDuration => error = ""
        /\ Len(flightPath) = 1

\* C18 amended: with origin and destination the same airport the route
\* computation completes without error and the route is one segment of
\* steps + 1 points, each of them the origin.
C18_CoincidentRoute ==
    CoincidentRoute =>
        /\ PositiveDuration => error = ""
        /\ Len(flightPath) = steps + 1
        /\ Len(flightPathSegments) = 1
        /\ \A k \in 1..Len(flightPath) : flightPath[k] = Origin

C18_Witness ==
    /\ CoincidentRoute
    /\ PositiveDuration
    /\ error = ""
    /\ Len(flightPath) = 21
    /\ Sampled
    /\ \A i \in 1..Len(sunPoints) : <<sunPoints[i].lat, sunPoints[i].lon>> = Origin

\* C19: the path and the samples start at the origin and end at the
\* destination (fractions 0 and 1), and between an airport and itself every
\* sample is that airport (any fraction).
C19_EndPoints ==
    Routed =>
        /\ flightPath[1] = Origin
        /\ flightPath[Len(flightPath)] = Destination
        /\ Sampled =>
              /\ <<sunPoints[1].lat, sunPoints[1].lon>> = Origin
              /\ <<LastSample.lat, LastSample.lon>> = Destination
              /\ Origin = Destination =>
                    \A i \in 1..Len(sunPoints) : sunPoints[i].lon = Origin[2]

C19_Witness ==
    /\ Routed
    /\ Sampled
    /\ Origin # Destination
    /\ Len(flightPathSegments) = 2
    /\ flightPath[1] = Origin
    /\ flightPath[steps + 1] = Destination
    /\ Len(sunPoints) = 3
    /\ sunPoints[2].lon \notin {Origin[2], Destination[2]}

\* C21: an event detected between samples i and i+1 carries the latitude,
\* longitude and azimuth of sample i+1, whether its time is the ephemeris
\* value or the interpolated one.
C21_EventAtLaterSample ==
    Done => \A k \in 1..Len(sunEvents) :
                LET later == sunPoints[NthCrossing(k) + 1]
                IN  /\ sunEvents[k].lat = later.lat
                    /\ sunEvents[k].lon = later.lon
                    /\ sunEvents[k].azimuth = later.azimuth

C21_Witness ==
    /\ Done
    /\ Len(sunEvents) = 2
    /\ EphemerisInBracket(1) /\ ~EphemerisInBracket(2)
    /\ \A k \in 1..2 :
          /\ sunEvents[k].azimuth = sunPoints[NthCrossing(k) + 1].azimuth
          /\ sunEvents[k].azimuth # sunPoints[NthCrossing(k)].azimuth

\* C23: consecutive events differ in kind, and there are at most
\* sample count - 1 events.
C23_EventsAlternate ==
    Done =>
        /\ \A k \in 1..(Len(sunEvents) - 1) : sunEvents[k].type # sunEvents[k + 1].type
        /\ Len(sunPoints) >= 1 => Len(sunEvents) <= Len(sunPoints) - 1

C23_Witness ==
    /\ Done
    /\ Len(sunPoints) = 3
    /\ Len(sunEvents) = 2
    /\ sunEvents[1].type = "sunset" /\ sunEvents[2].type = "sunrise"
    /\ sunPoints[2].altitude = 0 - 4

\* C28: the recommendation says that the sun is not visible during the
\* flight only when no interval was visible, and never while the summary
\* reports the sun visible for part of the flight.
C28_NotVisibleTextOnlyWhenNoneVisible ==
    (Done /\ recommendation = NeitherSeat) =>
        /\ sunIntervals = 0
        /\ sunSummary.kind # "visible"

\* the steps of the drawn points of exactly 180 degrees
HalfTurnSteps == {i \in 1..(Len(points) - 1) : Abs(points[i + 1][2] - points[i][2]) = 180}

\* the index in points of the first point of segment s
SegmentStart(s) == 1 + SumLen(SubSeq(flightPathSegments, 1, s - 1))

\* C22: a new segment starts exactly at the steps wider than 180 degrees:
\* a non-empty path gives one segment more than it has such steps, every
\* segment but the first starts right after one, and a step of exactly 180
\* degrees does not split.
C22_SplitsExactlyAtWideSteps ==
    Done =>
        /\ points = <<>> => flightPathSegments = <<>>
        /\ points # <<>> => Len(flightPathSegments) = 1 + Cardinality(WideSteps)
        /\ {SegmentStart(s) - 1 : s \in 2..Len(flightPathSegments)} = WideSteps

C22_Witness ==
    /\ Done
    /\ Len(points) = 4
    /\ HalfTurnSteps = {1, 3}
    /\ WideSteps = {2}
    /\ Len(flightPathSegments) = 2
    /\ Len(flightPathSegments[1]) = 2

\* what is displayed of a query: nothing
NothingDisplayed ==
    /\ recommendation = ""
    /\ sunSummary = NoSummary
    /\ sunEvents = <<>>
    /\ flightPath = <<>>
    /\ depTime = {}
    /\ arrivalTime = {}

RenderGuard == flightPath # <<>> /\ depTime # {} /\ arrivalTime # {}

\* C26: in every state of the App, after mount, edits, swapAirports,
\* loadFavorite and submits, a non-empty flight path with departure and
\* arrival times set comes with a source and a destination airport, so
\* the sampling at render has both to read.
C26_RenderGuardHasAirports ==
    RenderGuard => sourceAirport # {} /\ destAirport # {}

C26_Witness ==
    /\ RenderGuard
    /\ find(sourceIATA) = {}
    /\ sourceAirport # {}
    /\ destAirport # {}

\* the samples computed at render, from the airports and the departure of
\* the state and the flight time of the form
RenderSunPoints ==
    IF RenderGuard
    THEN LET src == CHOOSE a \in sourceAirport : TRUE
             dst == CHOOSE a \in destAirport : TRUE
             dep == CHOOSE t \in depTime : TRUE
         IN  interpolateSunAlongRoute(sky, src.lat, src.lon, dst.lat, dst.lon,
                                      dep, flightTime, 10)
    ELSE Returns(<<>>)

\* C27: while the recommendation of a successful submit is displayed,
\* whatever was edited since, the samples computed at render are those of
\* the submit: same origin, destination, departure instant and duration.
C27_RenderSamplesAsSubmitted ==
    (Sampled /\ error = "") => RenderSunPoints = Returns(sunPoints)

\* the pairs of a favorites list, and the lists without a pair twice
PairsOf(favs) == {favs[i] : i \in 1..Len(favs)}
NoDuplicate(favs) == Cardinality(PairsOf(favs)) = Len(favs)
CurrentPair == [source |-> sourceIATA, dest |-> destIATA]

MountSettled ==
    /\ pc = "returnVisit"
    /\ effectQueue = <<>>
    /\ pending = NoPending

\* C30: on a mount that finds a non-empty saved list, once the load
\* effect, the save effect and the renders they cause have run, effects run
\* twice included, favorites is the saved list and the stored item still
\* holds it.
C30_SavedFavoritesSurviveMount ==
    MountSettled =>
        /\ favorites = SavedFavorites
        /\ localStorage = {stringify(SavedFavorites)}


=============================================================================
